---- MODULE Spec2Model ----
(***************************************************************************)
(* The Cubeflix Binary Format codec (cbf.py): dump, load and the blob      *)
(* read-handle, as a state machine over a file of bytes.                   *)
(*                                                                         *)
(* Python values are records tagged by "kind":                             *)
(*   none | blob (WritableBlob) | dict | str | int | float | bytes |       *)
(*   bytearray | bool | list (a type outside VALID_TYPES) |                *)
(*   rblob (ReadableBlob) | tuple (what struct.unpack returns).            *)
(* A dict is its sequence of entries in insertion order.  A str is the     *)
(* runs of its code points, bytes its sequence of 0..255.  A Python int is *)
(* sign and magnitude, the magnitude in base-256 digits, least significant *)
(* first and without leading zeros (TLC's own integers are 32 bits wide).  *)
(***************************************************************************)
EXTENDS Integers, Sequences, FiniteSets, TLC

VARIABLES
    dataset,    \* the object handed to dump
    buffered,   \* whether the caller's streams are io.Buffered{Writer,Reader}
    file,       \* the bytes of the file dump writes and load reads
    dpc,        \* where dump is: none, start, header, block, binary, done, error
    derr,       \* the exception dump raised ("" while none)
    binary_starting_offset, \* dump's local of that name
    placed,     \* the <<offset, size>> pairs _dump_block wrote, in order
    lpc,        \* where load is: idle, done, error
    lerr,       \* the exception load raised ("" while none)
    loaded,     \* what load returned
    pos,        \* the cursor of the stream load read from (shared by handles)
    rd,         \* the outcome of the last ReadableBlob call
    threads,    \* per thread, the ReadableBlob call it is in the middle of
    ex          \* where archive's _extract_path is, and what it has done

vars == <<dataset, buffered, file, dpc, derr, binary_starting_offset, placed,
          lpc, lerr, loaded, pos, rd, threads, ex>>

----------------------------------------------------------------------------
(* Program constants. *)

TYPE_NONE == 0
TYPE_BLOB == 1
TYPE_DATASET == 2
TYPE_STRING == 3
TYPE_INT == 4
TYPE_UINT == 5
TYPE_FLOAT == 6
TYPE_BYTES == 7
TYPE_BOOL == 8
MAX_KEY_LEN == 65535
CBF_VERSION == <<65>>
CBF_HEADER == <<67, 66>> \o CBF_VERSION

----------------------------------------------------------------------------
(* Python values. *)

\* A str is kept as the runs of its code points, <<code point, count>>: the
\* string of 65535 times "k" is <<<<107, 65535>>>>.
SetMin(S) == CHOOSE x \in S : \A y \in S : x <= y

RunStarts(chars) ==
    UNION {{i \in 1..Len(c) : i = 1 \/ c[i] # c[i - 1]} : c \in {chars}}

RECURSIVE RunsFrom(_, _)
RunsFrom(chars, starts) ==
    IF starts = {} THEN <<>>
    ELSE LET i == SetMin(starts)
             next == SetMin((starts \ {i}) \cup {Len(chars) + 1})
         IN  <<<<chars[i], next - i>>>> \o RunsFrom(chars, starts \ {i})

RunsOf(chars) == RunsFrom(chars, RunStarts(chars))

\* The code points of a str, one by one.
RECURSIVE Expand(_)
Expand(runs) ==
    IF runs = <<>> THEN <<>>
    ELSE SubSeq([j \in 1..Head(runs)[2] |-> Head(runs)[1]], 1, Head(runs)[2])
         \o Expand(Tail(runs))

Chars(value) == Expand(value.runs)

PyNone == [kind |-> "none"]
PyStr(chars) == [kind |-> "str", runs |-> RunsOf(chars)]
PyBytes(data) == [kind |-> "bytes", data |-> data]
PyByteArray(data) == [kind |-> "bytearray", data |-> data]
PyBool(b) == [kind |-> "bool", b |-> b]
PyInt(neg, mag) == [kind |-> "int", neg |-> neg, mag |-> mag]
PyFloat(sign, exp, frac) == [kind |-> "float", sign |-> sign, exp |-> exp, frac |-> frac]
PyTuple(items) == [kind |-> "tuple", items |-> items]
PyDict(items) == [kind |-> "dict", items |-> items]
Entry(key, value) == [key |-> key, value |-> value]
PyList == [kind |-> "list"]

\* isinstance(value, cls): bool is a subclass of int.
IsInstance(value, cls) ==
    \/ value.kind = cls
    \/ cls = "int" /\ value.kind = "bool"

\* The int a bool is, as every int operation sees it.
AsInt(value) ==
    IF value.kind = "bool"
    THEN PyInt(FALSE, IF value.b THEN <<1>> ELSE <<>>)
    ELSE value

Min(a, b) == IF a <= b THEN a ELSE b

\* Stands for every number 2^30 or more: no file of the model is that long.
Huge == 1024 * 1024 * 1024

RECURSIVE Zeros(_)
Zeros(n) == IF n <= 0 THEN <<>> ELSE <<0>> \o Zeros(n - 1)

RECURSIVE StripZeros(_)
StripZeros(digits) ==
    IF digits # <<>> /\ digits[Len(digits)] = 0
    THEN StripZeros(SubSeq(digits, 1, Len(digits) - 1))
    ELSE digits

\* n.to_bytes(width, 'little') of a small non-negative int n; the caller
\* checks the overflow.
RECURSIVE NatToBytes(_, _)
NatToBytes(n, width) ==
    IF width = 0 THEN <<>> ELSE <<n % 256>> \o NatToBytes(n \div 256, width - 1)

\* int.from_bytes(b, 'little', signed=False) as a number, Huge when 2^30 or
\* more.  Fewer bytes than asked (a read at the end of the file) are fine.
RECURSIVE BytesToNat(_)
BytesToNat(b) ==
    IF b = <<>> THEN 0
    ELSE LET rest == BytesToNat(Tail(b))
         IN  IF rest >= Huge \div 256 THEN Huge ELSE Head(b) + 256 * rest

\* value.to_bytes(8, 'little'), signed=False: [err, bytes].
IntToBytes8(value) ==
    IF value.neg \/ Len(value.mag) > 8
    THEN [err |-> "OverflowError", bytes |-> <<>>]
    ELSE [err |-> "", bytes |-> value.mag \o Zeros(8 - Len(value.mag))]

\* 2^(8*Len(b)) - b on digits: invert every digit, add one.
RECURSIVE AddOne(_)
AddOne(digits) ==
    IF digits = <<>> THEN <<>>
    ELSE IF Head(digits) = 255 THEN <<0>> \o AddOne(Tail(digits))
    ELSE <<Head(digits) + 1>> \o Tail(digits)

Negate(b) == AddOne([i \in 1..Len(b) |-> 255 - b[i]])

\* int.from_bytes(b, 'little', signed=...).
IntFromBytes(b, signed) ==
    IF signed /\ b # <<>> /\ b[Len(b)] >= 128
    THEN PyInt(TRUE, StripZeros(Negate(b)))
    ELSE PyInt(FALSE, StripZeros(b))

\* struct.pack('d', value) on a little-endian host: IEEE-754 binary64, the
\* 52-bit fraction as six bytes and a high nibble.
PackDouble(value) ==
    SubSeq(value.frac, 1, 6)
    \o <<(value.exp % 16) * 16 + value.frac[7]>>
    \o <<value.sign * 128 + value.exp \div 16>>

\* struct.unpack('d', b): a tuple of one float; struct.error unless 8 bytes.
UnpackDouble(b) ==
    IF Len(b) # 8
    THEN [err |-> "struct.error", value |-> PyNone]
    ELSE [err |-> "",
          value |-> PyTuple(<<PyFloat(b[8] \div 128,
                                  (b[8] % 128) * 16 + b[7] \div 16,
                                  SubSeq(b, 1, 6) \o <<b[7] % 16>>)>>)]

----------------------------------------------------------------------------
(* Codecs. *)

\* key.encode('ascii')
EncodeAscii(chars) ==
    IF \A c \in {chars} : \A i \in 1..Len(c) : c[i] < 128
    THEN [err |-> "", bytes |-> chars]
    ELSE [err |-> "UnicodeEncodeError", bytes |-> <<>>]

\* b.decode('ascii')
DecodeAscii(b) ==
    IF \A c \in {b} : \A i \in 1..Len(c) : c[i] < 128
    THEN [err |-> "", chars |-> b]
    ELSE [err |-> "UnicodeDecodeError", chars |-> <<>>]

IsSurrogate(cp) == cp >= 55296 /\ cp <= 57343

Utf8Char(cp) ==
    IF cp < 128 THEN <<cp>>
    ELSE IF cp < 2048 THEN <<192 + cp \div 64, 128 + (cp % 64)>>
    ELSE IF cp < 65536
    THEN <<224 + cp \div 4096, 128 + ((cp \div 64) % 64), 128 + (cp % 64)>>
    ELSE <<240 + cp \div 262144, 128 + ((cp \div 4096) % 64),
           128 + ((cp \div 64) % 64), 128 + (cp % 64)>>

RECURSIVE Utf8Bytes(_)
Utf8Bytes(chars) ==
    IF chars = <<>> THEN <<>> ELSE Utf8Char(Head(chars)) \o Utf8Bytes(Tail(chars))

\* value.encode('utf-8'): strict, a lone surrogate cannot be encoded.
EncodeUtf8(chars) ==
    IF \E i \in 1..Len(chars) : IsSurrogate(chars[i])
    THEN [err |-> "UnicodeEncodeError", bytes |-> <<>>]
    ELSE [err |-> "", bytes |-> Utf8Bytes(chars)]

IsCont(b, i) == i <= Len(b) /\ b[i] >= 128 /\ b[i] < 192

\* b.decode('utf-8'): strict (no overlong form, no surrogate, nothing above
\* U+10FFFF, no truncated sequence).
RECURSIVE DecodeUtf8(_)
DecodeUtf8(b) ==
    LET bad == [err |-> "UnicodeDecodeError", chars |-> <<>>]
        Then(cp, n) ==
            LET rest == DecodeUtf8(SubSeq(b, n + 1, Len(b)))
            IN  IF rest.err # "" THEN bad
                ELSE [err |-> "", chars |-> <<cp>> \o rest.chars]
    IN  IF b = <<>> THEN [err |-> "", chars |-> <<>>]
        ELSE IF b[1] < 128 THEN Then(b[1], 1)
        ELSE IF b[1] >= 194 /\ b[1] < 224 /\ IsCont(b, 2)
        THEN Then((b[1] - 192) * 64 + (b[2] - 128), 2)
        ELSE IF b[1] >= 224 /\ b[1] < 240 /\ IsCont(b, 2) /\ IsCont(b, 3)
        THEN LET cp == (b[1] - 224) * 4096 + (b[2] - 128) * 64 + (b[3] - 128)
             IN  IF cp < 2048 \/ IsSurrogate(cp) THEN bad ELSE Then(cp, 3)
        ELSE IF b[1] >= 240 /\ b[1] < 245 /\ IsCont(b, 2) /\ IsCont(b, 3)
                /\ IsCont(b, 4)
        THEN LET cp == (b[1] - 240) * 262144 + (b[2] - 128) * 4096
                       + (b[3] - 128) * 64 + (b[4] - 128)
             IN  IF cp < 65536 \/ cp > 1114111 THEN bad ELSE Then(cp, 4)
        ELSE bad

----------------------------------------------------------------------------
(* dump: the size calculator, the block encoder, the binary section. *)

\* A WritableBlob: the length it declares (FileWritableBlob takes it from
\* os.path.getsize when constructed) and the bytes its dump(file) copies.
Blob(length, data) == [kind |-> "blob", length |-> length, data |-> data]

Ok(size) == [err |-> "", size |-> size]
Raise(err) == [err |-> err, size |-> 0]

\* A limit that is off by one: a key of MAX_KEY_LEN characters is refused.
KeyTooLongOffByOne(key) == Len(Chars(key)) >= MAX_KEY_LEN

\* len(key) > MAX_KEY_LEN
KeyTooLong(key) == Len(Chars(key)) > MAX_KEY_LEN

\* A size pass that counts a string's characters, not its UTF-8 bytes.
StringSizeInChars(value) ==
    LET e == EncodeUtf8(Chars(value))
    IN  IF e.err # "" THEN Raise(e.err) ELSE Ok(8 + Len(Chars(value)))

\* 8 + len(value.encode('utf-8'))
StringSize(value) ==
    LET e == EncodeUtf8(Chars(value))
    IN  IF e.err # "" THEN Raise(e.err) ELSE Ok(8 + Len(e.bytes))

RECURSIVE _calculate_block_size(_)

\* A size pass that lets every type of value through.
ValueSizeUnchecked(value) ==
    IF IsInstance(value, "dict") THEN _calculate_block_size(value)
    ELSE IF IsInstance(value, "str") THEN StringSize(value)
    ELSE Ok(0)

\* The isinstance chain of _calculate_block_size: what one value adds.
ValueSize(value) ==
    IF IsInstance(value, "none") THEN Ok(0)
    ELSE IF IsInstance(value, "blob") THEN Ok(16)
    ELSE IF IsInstance(value, "dict") THEN _calculate_block_size(value)
    ELSE IF IsInstance(value, "str") THEN StringSize(value)
    ELSE IF IsInstance(value, "int") THEN Ok(8)
    ELSE IF IsInstance(value, "float") THEN Ok(8)
    ELSE IF IsInstance(value, "bytes") \/ IsInstance(value, "bytearray")
    THEN Ok(8 + Len(value.data))
    ELSE IF IsInstance(value, "bool") THEN Ok(1)
    ELSE Raise("TypeError")

\* The loop of _calculate_block_size from entry i on, size so far.
RECURSIVE CalcLoop(_, _, _)
CalcLoop(items, i, size) ==
    IF i > Len(items) THEN Ok(size)
    ELSE LET key == items[i].key
             value == items[i].value
         IN  IF ~IsInstance(key, "str") THEN Raise("TypeError")
             ELSE IF KeyTooLong(key) THEN Raise("SizeError")
             ELSE LET v == ValueSize(value)
                  IN  IF v.err # "" THEN v
                      ELSE CalcLoop(items, i + 1,
                                    size + 1 + (2 + Len(Chars(key))) + v.size)

_calculate_block_size(ds) == CalcLoop(ds.items, 1, 8)

\* What a stretch of _dump_block did: the bytes it wrote (also when it
\* raised), the running offset, the exception, the blob fields it wrote.
Wrote(out, cefl) == [err |-> "", out |-> out, cefl |-> cefl, placed |-> <<>>]
Failed(err, out, cefl) == [err |-> err, out |-> out, cefl |-> cefl, placed |-> <<>>]

\* The length field of a string: len(value).to_bytes(8, 'little')
StringLengthField(value) == NatToBytes(Len(Chars(value)), 8)

\* A blob entry that leaves the running offset where it was.
DumpBlobEntryNoAdvance(value, cefl) ==
    [err |-> "",
     out |-> <<TYPE_BLOB>> \o NatToBytes(cefl, 8) \o NatToBytes(value.length, 8),
     cefl |-> cefl,
     placed |-> <<<<cefl, value.length>>>>]

\* The two fields of a blob entry and the running offset after it.
DumpBlobEntry(value, cefl) ==
    [err |-> "",
     out |-> <<TYPE_BLOB>> \o NatToBytes(cefl, 8) \o NatToBytes(value.length, 8),
     cefl |-> cefl + value.length,
     placed |-> <<<<cefl, value.length>>>>]

RECURSIVE _dump_block(_, _)

\* The isinstance chain of _dump_block: the tag and payload of one value.
DumpValue(value, cefl) ==
    IF IsInstance(value, "none") THEN Wrote(<<TYPE_NONE>>, cefl)
    ELSE IF IsInstance(value, "blob") THEN DumpBlobEntry(value, cefl)
    ELSE IF IsInstance(value, "dict")
    THEN LET r == _dump_block(value, cefl)
         IN  [r EXCEPT !.out = <<TYPE_DATASET>> \o r.out]
    ELSE IF IsInstance(value, "str")
    THEN LET e == EncodeUtf8(Chars(value))
             head == <<TYPE_STRING>> \o StringLengthField(value)
         IN  IF e.err # "" THEN Failed(e.err, head, cefl)
             ELSE Wrote(head \o e.bytes, cefl)
    ELSE IF IsInstance(value, "int")
    THEN LET b == IntToBytes8(AsInt(value))
         IN  IF b.err # "" THEN Failed(b.err, <<TYPE_INT>>, cefl)
             ELSE Wrote(<<TYPE_INT>> \o b.bytes, cefl)
    ELSE IF IsInstance(value, "float")
    THEN Wrote(<<TYPE_FLOAT>> \o PackDouble(value), cefl)
    ELSE IF IsInstance(value, "bytes") \/ IsInstance(value, "bytearray")
    THEN Wrote(<<TYPE_BYTES>> \o NatToBytes(Len(value.data), 8) \o value.data, cefl)
    ELSE IF IsInstance(value, "bool")
    THEN Wrote(<<TYPE_BOOL>> \o (IF value.b THEN <<255>> ELSE <<0>>), cefl)
    ELSE Failed("TypeError", <<>>, cefl)

\* The key of one entry: len(key).to_bytes(2, 'little'), key.encode('ascii').
DumpKey(key) ==
    IF ~IsInstance(key, "str") THEN [err |-> "TypeError", out |-> <<>>]
    ELSE IF Len(Chars(key)) > 65535 THEN [err |-> "OverflowError", out |-> <<>>]
    ELSE LET n == NatToBytes(Len(Chars(key)), 2)
             e == EncodeAscii(Chars(key))
         IN  IF e.err # "" THEN [err |-> e.err, out |-> n]
             ELSE [err |-> "", out |-> n \o e.bytes]

\* The loop of _dump_block from entry i on; acc is what was done so far.
RECURSIVE DumpLoop(_, _, _)
DumpLoop(items, i, acc) ==
    IF i > Len(items) THEN acc
    ELSE LET k == DumpKey(items[i].key)
         IN  IF k.err # "" THEN [acc EXCEPT !.err = k.err, !.out = @ \o k.out]
             ELSE LET v == DumpValue(items[i].value, acc.cefl)
                      now == [err |-> v.err,
                              out |-> acc.out \o k.out \o v.out,
                              cefl |-> v.cefl,
                              placed |-> acc.placed \o v.placed]
                  IN  IF v.err # "" THEN now ELSE DumpLoop(items, i + 1, now)

_dump_block(ds, current_estimated_file_length) ==
    DumpLoop(ds.items, 1,
             Wrote(NatToBytes(Len(ds.items), 8), current_estimated_file_length))

\* A blob that emits no more than the length it declared.
BlobDumpDeclared(value) == SubSeq(value.data, 1, Min(value.length, Len(value.data)))

\* FileWritableBlob.dump: the bytes the backing file holds when it is copied,
\* whatever length was declared at construction.
BlobDump(value) == value.data

\* The bytes _dump_binary writes: every blob's own bytes, depth first.
RECURSIVE _dump_binary(_)
RECURSIVE BinaryLoop(_, _)
BinaryLoop(items, i) ==
    IF i > Len(items) THEN <<>>
    ELSE LET value == items[i].value
         IN  (IF IsInstance(value, "blob") THEN BlobDump(value)
              ELSE IF IsInstance(value, "dict") THEN _dump_binary(value)
              ELSE <<>>) \o BinaryLoop(items, i + 1)

_dump_binary(ds) == BinaryLoop(ds.items, 1)

----------------------------------------------------------------------------
(* load: the block decoder over a seekable stream (its bytes f, cursor p). *)

\* A ReadableBlob; its file is the one stream of the load that made it.
ReadableBlob(location, size) ==
    [kind |-> "rblob", location |-> location, size |-> size]

\* file.read(n) at cursor p: what is there, at most n bytes.
Read(f, p, n) ==
    LET end == IF p >= Len(f) THEN p ELSE Min(p + n, Len(f))
    IN  [data |-> SubSeq(f, p + 1, end), pos |-> end]

Got(value, p) == [err |-> "", value |-> value, pos |-> p]
Fail(err, p) == [err |-> err, value |-> PyNone, pos |-> p]

\* block[key] = value: a key already there keeps its place.
DictSet(block, key, value) ==
    IF \E j \in 1..Len(block) : block[j].key = key
    THEN [j \in 1..Len(block) |->
            IF block[j].key = key THEN Entry(key, value) ELSE block[j]]
    ELSE Append(block, Entry(key, value))

\* file.read(n) for a length n read from the file: a length of 2^30 or more
\* needs a buffer that size, which the host gives (alloc) or refuses.
ReadCounted(f, p, n, alloc) ==
    IF n >= Huge /\ ~alloc
    THEN [err |-> "MemoryError", data |-> <<>>, pos |-> p]
    ELSE [err |-> ""] @@ Read(f, p, n)

\* TYPE_BLOB: location and size, no payload byte read.
LoadBlob(f, p) ==
    LET location == Read(f, p, 8)
        size == Read(f, location.pos, 8)
    IN  Got(ReadableBlob(BytesToNat(location.data), BytesToNat(size.data)),
            size.pos)

\* TYPE_STRING: str_len, then file.read(str_len).decode('utf-8').
LoadString(f, p, alloc) ==
    LET str_len == Read(f, p, 8)
        raw == ReadCounted(f, str_len.pos, BytesToNat(str_len.data), alloc)
        d == DecodeUtf8(raw.data)
    IN  IF raw.err # "" THEN Fail(raw.err, raw.pos)
        ELSE IF d.err # "" THEN Fail(d.err, raw.pos)
        ELSE Got(PyStr(d.chars), raw.pos)

\* TYPE_INT (signed) and TYPE_UINT (unsigned).
LoadInt(f, p, signed) ==
    LET raw == Read(f, p, 8)
    IN  Got(IntFromBytes(raw.data, signed), raw.pos)

\* TYPE_FLOAT: value = struct.unpack('d', file.read(8))
LoadFloat(f, p) ==
    LET raw == Read(f, p, 8)
        u == UnpackDouble(raw.data)
    IN  IF u.err # "" THEN Fail(u.err, raw.pos) ELSE Got(u.value, raw.pos)

\* TYPE_BYTES: bytes_len, then file.read(bytes_len).
LoadBytes(f, p, alloc) ==
    LET bytes_len == Read(f, p, 8)
        raw == ReadCounted(f, bytes_len.pos, BytesToNat(bytes_len.data), alloc)
    IN  IF raw.err # "" THEN Fail(raw.err, raw.pos)
        ELSE Got(PyBytes(raw.data), raw.pos)

\* A decoder that takes every nonzero byte for true.
LoadBoolLenient(f, p) ==
    LET raw == Read(f, p, 1)
    IN  IF raw.data = <<>> THEN Fail("IndexError", raw.pos)
        ELSE Got(PyBool(raw.data[1] # 0), raw.pos)

\* TYPE_BOOL: one byte, 0x00 or 0xff.
LoadBool(f, p) ==
    LET raw == Read(f, p, 1)
    IN  IF raw.data = <<>> THEN Fail("IndexError", raw.pos)
        ELSE IF raw.data[1] = 0 THEN Got(PyBool(FALSE), raw.pos)
        ELSE IF raw.data[1] = 255 THEN Got(PyBool(TRUE), raw.pos)
        ELSE Fail("InvalidCBFFileError: invalid boolean value", raw.pos)

\* A chain without its else: value stays None.
LoadUnknownAsNone(f, p) == Got(PyNone, p)

\* The else of the data type chain.
LoadUnknown(f, p) == Fail("InvalidCBFFileError: invalid data type", p)

RECURSIVE _load_block(_, _, _)

\* The data type chain of _load_block, the cursor p just after the tag.
LoadValue(f, p, data_type, alloc) ==
    IF data_type = TYPE_NONE THEN Got(PyNone, p)
    ELSE IF data_type = TYPE_BLOB THEN LoadBlob(f, p)
    ELSE IF data_type = TYPE_DATASET THEN _load_block(f, p, alloc)
    ELSE IF data_type = TYPE_STRING THEN LoadString(f, p, alloc)
    ELSE IF data_type = TYPE_INT THEN LoadInt(f, p, TRUE)
    ELSE IF data_type = TYPE_UINT THEN LoadInt(f, p, FALSE)
    ELSE IF data_type = TYPE_FLOAT THEN LoadFloat(f, p)
    ELSE IF data_type = TYPE_BYTES THEN LoadBytes(f, p, alloc)
    ELSE IF data_type = TYPE_BOOL THEN LoadBool(f, p)
    ELSE LoadUnknown(f, p)

\* The loop of _load_block: `left` entries still to read into block.
RECURSIVE LoadLoop(_, _, _, _, _)
LoadLoop(f, p, left, block, alloc) ==
    IF left = 0 THEN Got(PyDict(block), p)
    ELSE LET key_len == Read(f, p, 2)
             raw == Read(f, key_len.pos, BytesToNat(key_len.data))
             key == DecodeAscii(raw.data)
             tag == Read(f, raw.pos, 1)
         IN  IF key.err # "" THEN Fail(key.err, raw.pos)
             ELSE IF tag.data = <<>> THEN Fail("IndexError", tag.pos)
             ELSE LET v == LoadValue(f, tag.pos, tag.data[1], alloc)
                  IN  IF v.err # "" THEN Fail(v.err, v.pos)
                      ELSE LoadLoop(f, v.pos, left - 1,
                                    DictSet(block, PyStr(key.chars), v.value),
                                    alloc)

_load_block(f, p, alloc) ==
    LET length == Read(f, p, 8)
    IN  LoadLoop(f, length.pos, BytesToNat(length.data), <<>>, alloc)

\* load(file) on a BufferedReader at cursor 0.
load(f, alloc) ==
    LET header == Read(f, 0, 3)
    IN  IF header.data # CBF_HEADER
        THEN Fail("InvalidCBFFileError: invalid header", header.pos)
        ELSE _load_block(f, header.pos, alloc)

----------------------------------------------------------------------------
(* ReadableBlob.read and read_all on the shared stream. *)

\* A bound check that forgets the offset.
BlobReadIgnoringOffset(f, p, h, n, offset) ==
    IF n > h.size
    THEN [err |-> "EOFError", data |-> <<>>, pos |-> p]
    ELSE [err |-> ""] @@ Read(f, h.location + offset, n)

\* read(n, offset) of handle h, the stream's bytes f and cursor p.
BlobRead(f, p, h, n, offset) ==
    IF offset + n > h.size
    THEN [err |-> "EOFError", data |-> <<>>, pos |-> p]
    ELSE [err |-> ""] @@ Read(f, h.location + offset, n)

\* read_all() of handle h.
BlobReadAll(f, h) == [err |-> ""] @@ Read(f, h.location, h.size)

\* The read-handles of a decoded tree, depth first.
RECURSIVE Handles(_)
RECURSIVE HandlesFrom(_, _)
HandlesFrom(items, i) ==
    IF i > Len(items) THEN <<>>
    ELSE Handles(items[i].value) \o HandlesFrom(items, i + 1)

Handles(value) ==
    IF value.kind = "rblob" THEN <<value>>
    ELSE IF value.kind = "dict" THEN HandlesFrom(value.items, 1)
    ELSE <<>>

----------------------------------------------------------------------------
(* The inputs: the trees handed to dump, the byte streams handed to load. *)

MaxEntries == 2     \* entries of a root dataset of the structural family

KeyName(i) == [kind |-> "str", runs |-> <<<<96 + i, i>>>>]  \* "a", "bb", ...
LongKey(n) == [kind |-> "str", runs |-> <<<<107, n>>>>]     \* n times "k"

RECURSIVE Ramp(_, _)
Ramp(from, n) == IF n = 0 THEN <<>> ELSE <<from>> \o Ramp(from + 1, n - 1)

Blob10 == Blob(10, Ramp(48, 10))
Blob20 == Blob(20, Ramp(65, 20))

\* Datasets to nest: empty, one blob, a blob two levels down, a nested
\* dataset before a sibling blob, a blob before a nested dataset.
NestedValues ==
    {PyDict(<<>>),
     PyDict(<<Entry(KeyName(1), Blob20)>>),
     PyDict(<<Entry(KeyName(1), PyDict(<<Entry(KeyName(1), Blob10)>>))>>),
     PyDict(<<Entry(KeyName(1), PyDict(<<Entry(KeyName(2), Blob10)>>)),
              Entry(KeyName(2), Blob20)>>),
     PyDict(<<Entry(KeyName(1), Blob20),
              Entry(KeyName(2), PyDict(<<Entry(KeyName(1), PyNone)>>))>>)}

StructuralValues == {Blob10, Blob20} \cup NestedValues

\* Every sequence of n values of S, as entries keyed "a", "bb", ...
RECURSIVE EntriesOver(_, _)
EntriesOver(S, n) ==
    IF n = 0 THEN {<<>>}
    ELSE {Append(e, Entry(KeyName(n), v)) : e \in EntriesOver(S, n - 1), v \in S}

StructuralDatasets ==
    {PyDict(e) : e \in UNION {EntriesOver(StructuralValues, n)
                                : n \in 0..MaxEntries}}

IntValues ==
    {PyInt(FALSE, <<>>), PyInt(FALSE, <<1>>), PyInt(FALSE, <<42>>),
     PyInt(FALSE, <<255>>), PyInt(TRUE, <<1>>), PyInt(TRUE, <<0, 1>>),
     PyInt(FALSE, <<255, 255, 255, 255, 255, 255, 255, 127>>),
     PyInt(TRUE, <<0, 0, 0, 0, 0, 0, 0, 128>>),
     PyInt(FALSE, <<0, 0, 0, 0, 0, 0, 0, 128>>),
     PyInt(FALSE, <<255, 255, 255, 255, 255, 255, 255, 255>>),
     PyInt(FALSE, <<0, 0, 0, 0, 0, 0, 0, 0, 1>>)}

StringValues ==
    {PyStr(<<>>), PyStr(<<104, 105>>), PyStr(<<233>>), PyStr(<<233, 97>>),
     PyStr(<<8364, 128512>>), PyStr(<<55296>>)}

LeafValues ==
    {PyNone, Blob(0, <<>>), Blob(4, <<97, 98, 99, 100>>), Blob10,
     Blob(3, <<97, 98>>), Blob(1, <<97, 98, 99>>),
     PyFloat(0, 1023, <<0, 0, 0, 0, 0, 0, 8>>),
     PyFloat(1, 0, <<0, 0, 0, 0, 0, 0, 0>>),
     PyBytes(<<>>), PyBytes(<<255, 0>>), PyByteArray(<<1>>),
     PyBool(TRUE), PyBool(FALSE), PyList}
    \cup IntValues \cup StringValues

\* What follows a leaf in the same dataset.
FollowerValues == {PyNone, Blob(2, <<120, 121>>), PyStr(<<122>>)}

LeafDatasets ==
    {PyDict(<<Entry(KeyName(1), v)>>) : v \in LeafValues}
    \cup {PyDict(<<Entry(KeyName(1), v), Entry(KeyName(2), w)>>) :
            v \in LeafValues, w \in FollowerValues}
    \cup {PyDict(<<Entry(KeyName(1), PyDict(<<Entry(KeyName(1), v)>>)),
                   Entry(KeyName(2), w)>>) :
            v \in LeafValues, w \in {Blob(2, <<120, 121>>)}}

\* Keys at and around MAX_KEY_LEN, keys that are no str, keys outside ASCII.
KeyDatasets ==
    {PyDict(<<Entry(k, v)>>) :
        k \in {LongKey(MAX_KEY_LEN - 1), LongKey(MAX_KEY_LEN),
               LongKey(MAX_KEY_LEN + 1), PyInt(FALSE, <<1>>), PyStr(<<233>>)},
        v \in {PyNone, PyBytes(<<255, 0>>)}}
    \cup {PyDict(<<Entry(KeyName(1), PyNone),
                   Entry(KeyName(2), PyDict(<<Entry(k, PyNone)>>))>>) :
        k \in {LongKey(MAX_KEY_LEN), LongKey(MAX_KEY_LEN + 1),
               PyInt(FALSE, <<1>>), PyStr(<<233>>)}}

\* Blobs whose backing file changed size after construction: declared 3 and
\* emitting 2, declared 1 and emitting 3, declared 1 and emitting 2.
MutatedBlobs ==
    {Blob(3, <<97, 98>>), Blob(1, <<97, 98, 99>>), Blob(1, <<100, 101>>)}

\* Two blobs, either of them possibly mutated, before a third that is not;
\* the first at the root or in a nested dataset.
MutatedDatasets ==
    {PyDict(<<Entry(KeyName(1), IF nested THEN PyDict(<<Entry(KeyName(1), x)>>)
                                ELSE x),
              Entry(KeyName(2), y),
              Entry(KeyName(3), Blob(2, <<120, 121>>))>>) :
        x \in MutatedBlobs \cup {Blob(4, <<97, 98, 99, 100>>)},
        y \in MutatedBlobs \cup {Blob(4, <<97, 98, 99, 100>>)},
        nested \in BOOLEAN}

\* What dump may be handed: the trees above, and roots that are no dict.
Datasets ==
    StructuralDatasets \cup LeafDatasets \cup KeyDatasets \cup MutatedDatasets
    \cup {PyNone, PyList, PyStr(<<97>>)}

\* One entry as the format lays it out: key_len, key, tag, payload.
CraftEntry(key, tag, payload) ==
    NatToBytes(Len(key), 2) \o key \o <<tag>> \o payload

CraftTags == 0..10 \cup {255}

CraftPayloads ==
    {<<>>, <<0>>, <<1>>, <<255>>, <<1, 0, 0, 0, 0, 0, 0, 0>>,
     <<2, 0, 0, 0, 0, 0, 0, 0, 195, 169>>,
     <<255, 255, 255, 255, 255, 255, 255, 255>>,
     <<14, 0, 0, 0, 0, 0, 0, 0, 3, 0, 0, 0, 0, 0, 0, 0, 97, 98, 99>>,
     NatToBytes(1, 8) \o CraftEntry(<<97>>, 9, <<>>),
     NatToBytes(1, 8) \o CraftEntry(<<97>>, 8, <<1>>)}

\* Byte streams load may be handed that dump did not write.
Streams ==
    {CBF_HEADER \o NatToBytes(n, 8) \o CraftEntry(<<97>>, t, pl)
        \o (IF n = 2 THEN CraftEntry(<<98>>, 8, <<255>>) ELSE <<>>) :
        n \in 1..2, t \in CraftTags, pl \in CraftPayloads}
    \cup {<<>>, <<67, 66>>, <<67, 66, 66>> \o NatToBytes(0, 8), CBF_HEADER,
          CBF_HEADER \o NatToBytes(1, 8) \o <<1, 0, 128, 0>>,
          CBF_HEADER \o NatToBytes(2, 8) \o CraftEntry(<<97>>, 8, <<0>>)
              \o CraftEntry(<<97>>, 9, <<>>)}

----------------------------------------------------------------------------
(* The state machine. *)

NoCall == [op |-> "none", handle |-> PyNone, n |-> 0, offset |-> 0,
           err |-> "", data |-> <<>>]

\* archive.extract's default chunk_size, and the small chunk sizes tried.
DefaultChunkSize == 65536
MaxChunkSize == 4
MaxBlobSize == 20   \* the largest blob an extraction is followed through
ChunkSizes == 1..MaxChunkSize \cup {DefaultChunkSize}

\* A chunk that is always chunk_size long.
AmountToWriteWholeChunk(chunk_size, i, size) == chunk_size

\* amount_to_write = chunk_size if i + chunk_size <= val.size
\*                   else (val.size - i)
AmountToWrite(chunk_size, i, size) ==
    IF i + chunk_size <= size THEN chunk_size ELSE size - i

\* What _extract_path meets walking a decoded tree, in its order: a file to
\* write for a ReadableBlob, a directory to make and descend into for a
\* dict, and anything else, at which it raises.
RECURSIVE ExtractPlan(_)
RECURSIVE ExtractPlanFrom(_, _)
ExtractPlanFrom(items, i) ==
    IF i > Len(items) THEN <<>>
    ELSE LET val == items[i].value
         IN  (IF val.kind = "rblob"
              THEN <<[what |-> "file", key |-> items[i].key, val |-> val]>>
              ELSE IF val.kind = "dict"
              THEN <<[what |-> "dir", key |-> items[i].key, val |-> PyNone]>>
                   \o ExtractPlan(val)
              ELSE <<[what |-> "invalid", key |-> items[i].key, val |-> PyNone]>>)
             \o ExtractPlanFrom(items, i + 1)

ExtractPlan(value) == ExtractPlanFrom(value.items, 1)

\* No extraction under way.
NoExtract == [pc |-> "idle", chunk_size |-> 0, plan |-> <<>>, k |-> 0,
              i |-> 0, reads |-> <<>>, out |-> <<>>, err |-> ""]

\* The threads that hold handles of one decode, and a thread outside a call.
Threads == {"A", "B"}

NoThreadCall == [pc |-> "idle", op |-> "none", handle |-> PyNone, n |-> 0,
                 offset |-> 0, err |-> "", data |-> <<>>,
                 interrupted |-> FALSE]

\* A caller about to dump a tree into a new file, or about to load a file
\* that is already there.
Init ==
    /\ buffered \in BOOLEAN
    /\ \/ dataset \in Datasets /\ file = <<>> /\ dpc = "start"
       \/ dataset = PyNone /\ file \in Streams /\ dpc = "none"
    /\ derr = ""
    /\ binary_starting_offset = 0
    /\ placed = <<>>
    /\ lpc = "idle"
    /\ lerr = ""
    /\ loaded = PyNone
    /\ pos = 0
    /\ rd = NoCall
    /\ threads = [t \in Threads |-> NoThreadCall]
    /\ ex = NoExtract

DumpRaise(err) ==
    /\ dpc' = "error"
    /\ derr' = err

\* dump, to the end of the size pass: the type checks, then
\* binary_starting_offset = 3 + _calculate_block_size(dataset).
DumpSize ==
    /\ dpc = "start"
    /\ IF ~IsInstance(dataset, "dict") \/ ~buffered
       THEN DumpRaise("TypeError") /\ UNCHANGED binary_starting_offset
       ELSE LET c == _calculate_block_size(dataset)
            IN  IF c.err # ""
                THEN DumpRaise(c.err) /\ UNCHANGED binary_starting_offset
                ELSE /\ binary_starting_offset' = 3 + c.size
                     /\ dpc' = "header"
                     /\ UNCHANGED derr
    /\ UNCHANGED <<dataset, buffered, file, placed, lpc, lerr, loaded, pos, rd,
                   threads, ex>>

\* file.write(CBF_HEADER.encode('ascii'))
DumpHeader ==
    /\ dpc = "header"
    /\ file' = file \o CBF_HEADER
    /\ dpc' = "block"
    /\ UNCHANGED <<dataset, buffered, derr, binary_starting_offset, placed,
                   lpc, lerr, loaded, pos, rd, threads, ex>>

\* _dump_block(dataset, file, binary_starting_offset)
DumpBlock ==
    /\ dpc = "block"
    /\ LET r == _dump_block(dataset, binary_starting_offset)
       IN  /\ file' = file \o r.out
           /\ placed' = r.placed
           /\ IF r.err # "" THEN DumpRaise(r.err)
              ELSE dpc' = "binary" /\ UNCHANGED derr
    /\ UNCHANGED <<dataset, buffered, binary_starting_offset, lpc, lerr,
                   loaded, pos, rd, threads, ex>>

\* _dump_binary(dataset, file)
DumpBinary ==
    /\ dpc = "binary"
    /\ file' = file \o _dump_binary(dataset)
    /\ dpc' = "done"
    /\ UNCHANGED <<dataset, buffered, derr, binary_starting_offset, placed,
                   lpc, lerr, loaded, pos, rd, threads, ex>>

\* load(file) of the file dump completed, or of the file that was there.
Load ==
    /\ dpc \in {"done", "none"}
    /\ lpc = "idle"
    /\ \E alloc \in BOOLEAN :
         LET r == IF buffered THEN load(file, alloc) ELSE Fail("TypeError", 0)
         IN  /\ lpc' = IF r.err = "" THEN "done" ELSE "error"
             /\ lerr' = r.err
             /\ loaded' = r.value
             /\ pos' = r.pos
    /\ UNCHANGED <<dataset, buffered, file, dpc, derr, binary_starting_offset,
                   placed, rd, threads, ex>>

\* The lengths and offsets a caller asks of a blob of size s.
ReadArgs(s) == {0, 1} \cup (IF s < Huge THEN {s} ELSE {})

\* The handles a caller holds after load.
HandleSet(value) == {Handles(value)[i] : i \in 1..Len(Handles(value))}

\* h.read(n, offset) on a handle of the decoded tree.
ReadCall ==
    /\ lpc = "done"
    /\ \E h \in HandleSet(loaded) :
         \E n \in ReadArgs(h.size), offset \in ReadArgs(h.size) :
           \E r \in {BlobRead(file, pos, h, n, offset)} :
             /\ rd' = [op |-> "read", handle |-> h, n |-> n,
                       offset |-> offset, err |-> r.err, data |-> r.data]
             /\ pos' = r.pos
    /\ UNCHANGED <<dataset, buffered, file, dpc, derr, binary_starting_offset,
                   placed, lpc, lerr, loaded, threads, ex>>

\* h.read_all() on a handle of the decoded tree.
ReadAllCall ==
    /\ lpc = "done"
    /\ \E h \in HandleSet(loaded) :
         \E r \in {BlobReadAll(file, h)} :
           /\ rd' = [op |-> "read_all", handle |-> h, n |-> h.size,
                     offset |-> 0, err |-> r.err, data |-> r.data]
           /\ pos' = r.pos
    /\ UNCHANGED <<dataset, buffered, file, dpc, derr, binary_starting_offset,
                   placed, lpc, lerr, loaded, threads, ex>>

\* Two threads calling handles of one decode, a call each: a call is its
\* bound check, then file.seek, then file.read, and the threads interleave
\* between them. (The cursor a call leaves depends on that call alone, so the
\* second of two calls meets every cursor an earlier call can leave.)

\* A seek that forgets the offset.
SeekTargetNoOffset(h, offset) == h.location

\* Where read(n, offset) of handle h seeks to (read_all: offset 0).
SeekTarget(h, offset) == h.location + offset

\* Another thread's seek or read ran between a thread's seek and its read.
Interrupt(t) ==
    [u \in Threads |->
        IF u # t /\ threads[u].pc = "read"
        THEN [threads[u] EXCEPT !.interrupted = TRUE]
        ELSE threads[u]]

\* Thread t enters h.read(n, offset): the bound check.
ThreadRead(t) ==
    /\ lpc = "done"
    /\ threads[t].pc = "idle"
    /\ \E h \in HandleSet(loaded) :
         \E n \in ReadArgs(h.size), offset \in ReadArgs(h.size) :
           threads' = [threads EXCEPT ![t] =
               [pc |-> IF offset + n > h.size THEN "done" ELSE "seek",
                op |-> "read", handle |-> h, n |-> n, offset |-> offset,
                err |-> IF offset + n > h.size THEN "EOFError" ELSE "",
                data |-> <<>>, interrupted |-> FALSE]]
    /\ UNCHANGED <<dataset, buffered, file, dpc, derr, binary_starting_offset,
                   placed, lpc, lerr, loaded, pos, rd, ex>>

\* Thread t enters h.read_all().
ThreadReadAll(t) ==
    /\ lpc = "done"
    /\ threads[t].pc = "idle"
    /\ \E h \in HandleSet(loaded) :
         threads' = [threads EXCEPT ![t] =
             [pc |-> "seek", op |-> "read_all", handle |-> h, n |-> h.size,
              offset |-> 0, err |-> "", data |-> <<>>, interrupted |-> FALSE]]
    /\ UNCHANGED <<dataset, buffered, file, dpc, derr, binary_starting_offset,
                   placed, lpc, lerr, loaded, pos, rd, ex>>

\* self.file.seek(...)
ThreadSeek(t) ==
    /\ threads[t].pc = "seek"
    /\ pos' = SeekTarget(threads[t].handle, threads[t].offset)
    /\ threads' = [Interrupt(t) EXCEPT ![t].pc = "read"]
    /\ UNCHANGED <<dataset, buffered, file, dpc, derr, binary_starting_offset,
                   placed, lpc, lerr, loaded, rd, ex>>

\* return self.file.read(...)
ThreadFileRead(t) ==
    /\ threads[t].pc = "read"
    /\ \E r \in {Read(file, pos, threads[t].n)} :
         /\ pos' = r.pos
         /\ threads' = [Interrupt(t) EXCEPT ![t].pc = "done",
                                            ![t].data = r.data]
    /\ UNCHANGED <<dataset, buffered, file, dpc, derr, binary_starting_offset,
                   placed, lpc, lerr, loaded, rd, ex>>

Next ==
    \/ DumpSize
    \/ DumpHeader
    \/ DumpBlock
    \/ DumpBinary
    \/ Load
    \/ ReadCall
    \/ ReadAllCall

Spec == Init /\ [][Next]_vars

NextThreads ==
    \/ DumpSize
    \/ DumpHeader
    \/ DumpBlock
    \/ DumpBinary
    \/ Load
    \/ \E t \in Threads : ThreadRead(t)
    \/ \E t \in Threads : ThreadReadAll(t)
    \/ \E t \in Threads : ThreadSeek(t)
    \/ \E t \in Threads : ThreadFileRead(t)

SpecThreads == Init /\ [][NextThreads]_vars

----------------------------------------------------------------------------
(* archive.extract: _extract_path over the decoded tree, a step per item    *)
(* and per chunk.                                                           *)

\* _extract_path(dataset, output, chunk_size) is entered with the tree load
\* returned, for trees whose blobs are of at most MaxBlobSize bytes.
Extract ==
    /\ lpc = "done"
    /\ ex.pc = "idle"
    /\ loaded.kind = "dict"
    /\ \A h \in HandleSet(loaded) : h.size <= MaxBlobSize
    /\ \E chunk_size \in ChunkSizes :
         ex' = [NoExtract EXCEPT !.pc = "item", !.chunk_size = chunk_size,
                                 !.plan = ExtractPlan(loaded), !.k = 1]
    /\ UNCHANGED <<dataset, buffered, file, dpc, derr, binary_starting_offset,
                   placed, lpc, lerr, loaded, pos, rd, threads>>

\* for key, val in dataset.items(): the next item, or the end of the walk.
ExtractItem ==
    /\ ex.pc = "item"
    /\ IF ex.k > Len(ex.plan)
       THEN ex' = [ex EXCEPT !.pc = "done"]
       ELSE IF ex.plan[ex.k].what = "file"
       THEN ex' = [ex EXCEPT !.pc = "loop", !.i = 0, !.reads = <<>>,
                             !.out = <<>>]
       ELSE IF ex.plan[ex.k].what = "dir"
       THEN ex' = [ex EXCEPT !.k = @ + 1]
       ELSE ex' = [ex EXCEPT !.pc = "error",
                             !.err = "InvalidCBFFileError: invalid cbf archive"]
    /\ UNCHANGED <<dataset, buffered, file, dpc, derr, binary_starting_offset,
                   placed, lpc, lerr, loaded, pos, rd, threads>>

\* One turn of the loop: while i < val.size, read a chunk and write it.
ExtractChunk ==
    /\ ex.pc = "loop"
    /\ ex.i < ex.plan[ex.k].val.size
    /\ \E val \in {ex.plan[ex.k].val} :
         \E amount_to_write \in {AmountToWrite(ex.chunk_size, ex.i, val.size)} :
           \E r \in {BlobRead(file, pos, val, amount_to_write, ex.i)} :
             /\ pos' = r.pos
             /\ IF r.err # ""
                THEN ex' = [ex EXCEPT !.pc = "error", !.err = r.err,
                              !.reads = Append(@, <<amount_to_write, ex.i>>)]
                ELSE ex' = [ex EXCEPT !.i = @ + amount_to_write,
                              !.reads = Append(@, <<amount_to_write, ex.i>>),
                              !.out = @ \o r.data]
    /\ UNCHANGED <<dataset, buffered, file, dpc, derr, binary_starting_offset,
                   placed, lpc, lerr, loaded, rd, threads>>

\* The loop's condition fails: the output file is closed.
ExtractClose ==
    /\ ex.pc = "loop"
    /\ ~(ex.i < ex.plan[ex.k].val.size)
    /\ ex' = [ex EXCEPT !.pc = "closed"]
    /\ UNCHANGED <<dataset, buffered, file, dpc, derr, binary_starting_offset,
                   placed, lpc, lerr, loaded, pos, rd, threads>>

\* On to the item after the file.
ExtractAdvance ==
    /\ ex.pc = "closed"
    /\ ex' = [ex EXCEPT !.pc = "item", !.k = @ + 1]
    /\ UNCHANGED <<dataset, buffered, file, dpc, derr, binary_starting_offset,
                   placed, lpc, lerr, loaded, pos, rd, threads>>

NextExtract ==
    \/ DumpSize
    \/ DumpHeader
    \/ DumpBlock
    \/ DumpBinary
    \/ Load
    \/ Extract
    \/ ExtractItem
    \/ ExtractChunk
    \/ ExtractClose
    \/ ExtractAdvance

\* The loop runs in one thread that is not starved.
SpecExtract ==
    /\ Init
    /\ [][NextExtract]_vars
    /\ WF_vars(ExtractChunk)
    /\ WF_vars(ExtractClose)

----------------------------------------------------------------------------
(* The claims. *)

\* The write-source blobs of a tree in depth-first entry order.
RECURSIVE BlobsOf(_)
RECURSIVE BlobsFrom(_, _)
BlobsFrom(items, i) ==
    IF i > Len(items) THEN <<>>
    ELSE BlobsOf(items[i].value) \o BlobsFrom(items, i + 1)

BlobsOf(value) ==
    IF value.kind = "blob" THEN <<value>>
    ELSE IF value.kind = "dict" THEN BlobsFrom(value.items, 1)
    ELSE <<>>

\* Every blob emits exactly the length it declares.
AllExact(blobs) == \A i \in 1..Len(blobs) : Len(blobs[i].data) = blobs[i].length

\* -2^63 <= v <= 2^63 - 1
IsInt64(v) ==
    \/ Len(v.mag) < 8
    \/ Len(v.mag) = 8 /\ v.mag[8] < 128
    \/ v.neg /\ v.mag = <<0, 0, 0, 0, 0, 0, 0, 128>>

IsAsciiKey(key) ==
    /\ key.kind = "str"
    /\ Len(Chars(key)) <= MAX_KEY_LEN
    /\ \A c \in {Chars(key)} : \A i \in 1..Len(c) : c[i] < 128

\* A value of the value model: Null, write-source Blob, Dataset, String,
\* Int64, Float64, Bytes, Bool.
RECURSIVE InValueModel(_)
InValueModel(value) ==
    \/ value.kind \in {"none", "blob", "float", "bytes", "bool"}
    \/ value.kind = "str" /\ \A i \in 1..Len(Chars(value)) : ~IsSurrogate(Chars(value)[i])
    \/ value.kind = "int" /\ IsInt64(value)
    \/ /\ value.kind = "dict"
       /\ \A i \in 1..Len(value.items) :
            IsAsciiKey(value.items[i].key) /\ InValueModel(value.items[i].value)

\* The decoded value d is the original value v: same kind, equal content,
\* a blob's read_all() giving the bytes the write-source emitted.
RECURSIVE SameValue(_, _, _)
SameValue(v, d, f) ==
    IF v.kind = "blob"
    THEN d.kind = "rblob" /\ BlobReadAll(f, d).data = v.data
    ELSE IF v.kind = "dict"
    THEN /\ d.kind = "dict"
         /\ Len(d.items) = Len(v.items)
         /\ \A i \in 1..Len(v.items) :
              /\ d.items[i].key = v.items[i].key
              /\ SameValue(v.items[i].value, d.items[i].value, f)
    ELSE d = v

\* C1: for every dataset of the value model, dump succeeds, load of the
\* file succeeds and returns the same keys in the same order with values of
\* the same kind and content, every blob reading back the bytes emitted.
C1_RoundTrip ==
    (dpc # "none" /\ buffered /\ dataset.kind = "dict" /\ InValueModel(dataset))
    => /\ dpc # "error"
       /\ lpc # "error"
       /\ lpc = "done" => SameValue(dataset, loaded, file)

\* C2: when _dump_block has returned and _dump_binary is about to write, the
\* stream position (the file's length) is 3 + _calculate_block_size(dataset)
\* as computed before the first write.
C2_OffsetConsistency ==
    dpc = "binary" => binary_starting_offset = Len(file)

\* C2's case: a dump at that moment whose tree holds a blob and a string
\* longer in UTF-8 than in characters.
C2_Witness ==
    /\ dpc = "binary"
    /\ placed # <<>>
    /\ dataset.kind = "dict"
    /\ \E i \in 1..Len(dataset.items) :
         LET v == dataset.items[i].value
         IN  v.kind = "str" /\ Len(Utf8Bytes(Chars(v))) > Len(Chars(v))

\* base plus the declared lengths of the blobs before, blob by blob.
RECURSIVE ExpectedPlaced(_, _)
ExpectedPlaced(blobs, base) ==
    IF blobs = <<>> THEN <<>>
    ELSE <<<<base, Head(blobs).length>>>>
         \o ExpectedPlaced(Tail(blobs), base + Head(blobs).length)

\* C3: when every blob emits its declared length, a completed dump has
\* recorded for each blob the offset base + the lengths of the blobs before
\* it in depth-first order and its declared length as size, the file holds
\* the blob's bytes in exactly that range, and load's handles carry those
\* offsets and sizes.
C3_BlobPlacement ==
    (dpc = "done" /\ AllExact(BlobsOf(dataset)))
    => LET blobs == BlobsOf(dataset)
       IN  /\ placed = ExpectedPlaced(blobs, binary_starting_offset)
           /\ \A i \in 1..Len(blobs) :
                /\ placed[i][1] + placed[i][2] <= Len(file)
                /\ SubSeq(file, placed[i][1] + 1, placed[i][1] + placed[i][2])
                     = blobs[i].data
           /\ lpc = "done" =>
                Handles(loaded) = [i \in 1..Len(placed) |->
                                     ReadableBlob(placed[i][1], placed[i][2])]

\* C3's case: a completed dump of a nested dataset holding a blob, followed
\* by a sibling blob, and of two sibling blobs of sizes 10 and 20.
C3_Witness ==
    /\ dpc = "done"
    /\ lpc = "done"
    /\ dataset.kind = "dict"
    /\ Len(dataset.items) = 2
    /\ dataset.items[1].value.kind = "dict"
    /\ BlobsOf(dataset.items[1].value) = <<Blob10, Blob20>>
    /\ dataset.items[2].value = Blob10
    /\ placed = <<<<binary_starting_offset, 10>>,
                  <<binary_starting_offset + 10, 20>>,
                  <<binary_starting_offset + 30, 10>>>>

\* Everything but the length of its keys lets dump encode the value.
RECURSIVE EncodableButKeyLength(_)
EncodableButKeyLength(value) ==
    \/ value.kind \in {"none", "blob", "float", "bytes", "bytearray", "bool"}
    \/ value.kind = "str" /\ \A i \in 1..Len(Chars(value)) : ~IsSurrogate(Chars(value)[i])
    \/ value.kind = "int" /\ ~value.neg /\ Len(value.mag) <= 8
    \/ /\ value.kind = "dict"
       /\ \A i \in 1..Len(value.items) :
            /\ value.items[i].key.kind = "str"
            /\ \A c \in {Chars(value.items[i].key)} : \A j \in 1..Len(c) : c[j] < 128
            /\ EncodableButKeyLength(value.items[i].value)

\* Some key of the tree, at any depth, has n bytes or more.
RECURSIVE HasKeyOfAtLeast(_, _)
HasKeyOfAtLeast(value, n) ==
    /\ value.kind = "dict"
    /\ \E i \in 1..Len(value.items) :
         \/ Len(Chars(value.items[i].key)) >= n
         \/ HasKeyOfAtLeast(value.items[i].value, n)

\* C4: a tree that is encodable but for the length of its keys: with a key of
\* 65536 bytes or more at any depth dump fails with SizeError and writes
\* nothing (no truncated key); with keys up to 65535 bytes it does not fail.
C4_KeyLengthBoundary ==
    (dpc \notin {"none", "start"} /\ buffered /\ dataset.kind = "dict"
        /\ EncodableButKeyLength(dataset))
    => IF HasKeyOfAtLeast(dataset, 65536)
       THEN dpc = "error" /\ derr = "SizeError" /\ file = <<>>
       ELSE dpc # "error"

\* C4's case: a completed dump of a tree whose nested dataset has a key of
\* exactly 65535 bytes.
C4_Witness ==
    /\ dpc = "done"
    /\ dataset.kind = "dict"
    /\ Len(dataset.items) = 2
    /\ dataset.items[2].value.kind = "dict"
    /\ Len(dataset.items[2].value.items) = 1
    /\ Len(Chars(dataset.items[2].value.items[1].key)) = 65535
    /\ Len(file) > 65535

\* C5: a read(n, offset) on a handle (location L, size S) raises EOFError
\* and leaves the shared cursor where it was when offset + n > S; otherwise,
\* the blob's range lying within the file, it returns the n bytes of the file
\* at [L + offset, L + offset + n) and leaves the cursor at L + offset + n.
C5_BoundedRead ==
    [][(rd' # rd /\ rd'.op = "read") =>
        LET c == rd'
            from == c.handle.location + c.offset
        IN  IF c.offset + c.n > c.handle.size
            THEN c.err = "EOFError" /\ c.data = <<>> /\ pos' = pos
            ELSE /\ c.err = ""
                 /\ c.handle.location + c.handle.size <= Len(file) =>
                      /\ Len(c.data) = c.n
                      /\ c.data = SubSeq(file, from + 1, from + c.n)
                      /\ pos' = from + c.n]_vars

\* C5's case: a read one byte past the end of a blob has raised, the cursor
\* still where an earlier read of the file left it.
C5_Witness ==
    /\ rd.op = "read"
    /\ rd.err = "EOFError"
    /\ rd.offset + rd.n = rd.handle.size + 1
    /\ rd.handle.size = 20
    /\ pos > rd.handle.location
    /\ pos <= Len(file)

\* Where the tag of the first entry of the root block is in f (from 1), and
\* whether load gets as far as reading it.
FirstTagIndex(f) == 3 + 8 + 2 + BytesToNat(SubSeq(f, 12, 13)) + 1

ReadsFirstTag(f) ==
    /\ Len(f) >= 14
    /\ SubSeq(f, 1, 3) = <<67, 66, 65>>
    /\ SubSeq(f, 4, 11) # <<0, 0, 0, 0, 0, 0, 0, 0>>
    /\ FirstTagIndex(f) <= Len(f)
    /\ \A i \in 14..(FirstTagIndex(f) - 1) : f[i] < 128

\* C6: a load that reads a tag byte outside 0x00..0x08 fails with
\* InvalidCBFFileError 'invalid data type', returns nothing, and the last
\* byte it read is that tag; the first entry's tag being such a byte, load
\* ends so with the cursor just after it.
C6_UnknownTag ==
    /\ (lpc # "idle" /\ buffered /\ ReadsFirstTag(file)
            /\ file[FirstTagIndex(file)] \notin 0..8)
       => /\ lpc = "error"
          /\ lerr = "InvalidCBFFileError: invalid data type"
          /\ pos = FirstTagIndex(file)
          /\ loaded = PyNone
    /\ lerr = "InvalidCBFFileError: invalid data type"
       => /\ lpc = "error"
          /\ loaded = PyNone
          /\ pos >= 1 /\ pos <= Len(file)
          /\ file[pos] \notin 0..8

\* C6's case: load has failed on tag 0x09 with bytes of the file still
\* unread behind it.
C6_Witness ==
    /\ lpc = "error"
    /\ lerr = "InvalidCBFFileError: invalid data type"
    /\ file[pos] = 9
    /\ pos < Len(file)
    /\ loaded = PyNone

\* C7: the first entry having tag 0x08, load fails with InvalidCBFFileError
\* 'invalid boolean value' unless the payload byte is 0x00 or 0xff, and
\* otherwise decodes it to false for 0x00 and true for 0xff.
C7_BoolByte ==
    (lpc # "idle" /\ buffered /\ ReadsFirstTag(file)
        /\ file[FirstTagIndex(file)] = 8 /\ FirstTagIndex(file) < Len(file))
    => LET b == file[FirstTagIndex(file) + 1]
           key == PyStr(SubSeq(file, 14, FirstTagIndex(file) - 1))
       IN  IF b \notin {0, 255}
           THEN /\ lpc = "error"
                /\ lerr = "InvalidCBFFileError: invalid boolean value"
                /\ loaded = PyNone
           ELSE /\ lerr # "InvalidCBFFileError: invalid boolean value"
                /\ SubSeq(file, 4, 11) = <<1, 0, 0, 0, 0, 0, 0, 0>>
                   => /\ lpc = "done"
                      /\ loaded = PyDict(<<Entry(key, PyBool(b = 255))>>)

\* C7's case: load has failed on the bool payload byte 0x01.
C7_Witness ==
    /\ lpc = "error"
    /\ lerr = "InvalidCBFFileError: invalid boolean value"
    /\ ReadsFirstTag(file)
    /\ file[FirstTagIndex(file)] = 8
    /\ pos = FirstTagIndex(file) + 1
    /\ file[pos] = 1

\* The size the formula gives: 8, and per entry 1 + 2 + len(key) plus 0 for
\* Null, 16 for Blob, the block size for a Dataset, 8 + UTF-8 length for
\* String, 8 for Int64 and Float64, 8 + length for Bytes, 1 for Bool.
RECURSIVE FormulaBlockSize(_)
RECURSIVE FormulaEntriesSize(_, _)
FormulaEntriesSize(items, i) ==
    IF i > Len(items) THEN 0
    ELSE LET v == items[i].value
         IN  1 + 2 + Len(Chars(items[i].key))
             + (IF v.kind = "none" THEN 0
                ELSE IF v.kind = "blob" THEN 16
                ELSE IF v.kind = "dict" THEN FormulaBlockSize(v)
                ELSE IF v.kind = "str" THEN 8 + Len(Utf8Bytes(Chars(v)))
                ELSE IF v.kind \in {"int", "float"} THEN 8
                ELSE IF v.kind \in {"bytes", "bytearray"} THEN 8 + Len(v.data)
                ELSE 1)
             + FormulaEntriesSize(items, i + 1)

FormulaBlockSize(ds) == 8 + FormulaEntriesSize(ds.items, 1)

\* C8: whenever the size pass returns, it returns the formula's size (dump
\* keeps 3 + that size).
C8_SizeFormula ==
    dpc \in {"header", "block", "binary", "done"}
    => binary_starting_offset = 3 + FormulaBlockSize(dataset)

\* The tree {key: v} for an int v, handed to dump with a proper stream.
IsSingle(kind) ==
    /\ dpc # "none"
    /\ buffered
    /\ dataset.kind = "dict"
    /\ Len(dataset.items) = 1
    /\ IsAsciiKey(dataset.items[1].key)
    /\ dataset.items[1].value.kind = kind

\* C9: for {key: v}, v an int: if -2^63 <= v <= 2^63 - 1 dump does not fail,
\* and whatever v dump accepts, load succeeds and returns v.
C9_SignedInt64 ==
    IsSingle("int")
    => /\ IsInt64(dataset.items[1].value) => dpc # "error"
       /\ lpc # "error"
       /\ lpc = "done" => loaded = dataset

\* C10: for {key: s}, s a string: the 8-byte length field dump wrote is the
\* number of bytes that follow it, and load ends at the end of the payload.
C10_StringFraming ==
    (IsSingle("str") /\ dpc = "done")
    => LET field == FirstTagIndex(file)
       IN  /\ file[field] = 3
           /\ BytesToNat(SubSeq(file, field + 1, field + 8))
                = Len(file) - (field + 8)
           /\ lpc # "error"
           /\ lpc = "done" => pos = Len(file)

----------------------------------------------------------------------------
\* The bytes a completed call of thread t asked for: [offset, offset + n) of
\* its own blob.
OwnRange(t) ==
    SubSeq(file, threads[t].handle.location + threads[t].offset + 1,
           threads[t].handle.location + threads[t].offset + threads[t].n)

\* The handle's blob lies within the file, as every handle of a file that
\* dump wrote does.
BlobInFile(h) == h.size < Huge /\ h.location + h.size <= Len(file)

\* C11 (shared seek cursor): the handles of one decode share the stream's
\* cursor and a call is a seek step followed by a read step. A call whose
\* seek and read ran with no other thread's seek or read in between returns
\* exactly the requested bytes of its own blob, whatever calls came before
\* it and wherever they left the cursor. (The witness is the other half: a
\* call interrupted between its seek and its read returns other bytes.)
C11_SharedCursor ==
    \A t \in Threads :
        (/\ threads[t].pc = "done"
         /\ threads[t].err = ""
         /\ ~threads[t].interrupted
         /\ BlobInFile(threads[t].handle))
        => threads[t].data = OwnRange(t)

\* Seek A, seek B, read A: A's call has completed without an error, on a
\* handle other than B's, and what it returned is not its requested range.
C11_Witness ==
    /\ threads["A"].pc = "done"
    /\ threads["A"].err = ""
    /\ threads["A"].interrupted
    /\ threads["B"].pc = "read"
    /\ threads["A"].handle # threads["B"].handle
    /\ BlobInFile(threads["A"].handle)
    /\ BlobInFile(threads["B"].handle)
    /\ threads["A"].n > 0
    /\ threads["A"].data # OwnRange("A")

----------------------------------------------------------------------------
\* The blob emits a number of bytes other than the length it declared.
Mismatch(blob) == Len(blob.data) # blob.length

\* Where the payloads start in the file: the binary section begins at base
\* and every blob takes the room of the bytes it emitted.
RECURSIVE PayloadStarts(_, _)
PayloadStarts(blobs, base) ==
    IF blobs = <<>> THEN <<>>
    ELSE <<base>> \o PayloadStarts(Tail(blobs), base + Len(Head(blobs).data))

\* Declared length minus emitted bytes, summed over the blobs before blob j.
RECURSIVE Drift(_, _)
Drift(blobs, j) ==
    IF j <= 1 THEN 0
    ELSE Drift(blobs, j - 1) + blobs[j - 1].length - Len(blobs[j - 1].data)

\* A dump under way of a tree that is encodable and holds a blob whose
\* emitted bytes differ from its declared length.
MutatedDump ==
    /\ dpc \notin {"none", "start"}
    /\ buffered
    /\ dataset.kind = "dict"
    /\ EncodableButKeyLength(dataset)
    /\ ~HasKeyOfAtLeast(dataset, MAX_KEY_LEN + 1)
    /\ \E i \in 1..Len(BlobsOf(dataset)) : Mismatch(BlobsOf(dataset)[i])

\* C12 as stated (mutation-between-passes hazard): when a blob emits a
\* number of bytes different from its declared length, dump raises no error
\* and the offset recorded for every blob after it in traversal order
\* differs from the file position where that blob's payload starts.
C12_EveryFollowerOff ==
    MutatedDump
    => /\ dpc # "error"
       /\ dpc = "done" =>
            \A blobs \in {BlobsOf(dataset)} :
              \A starts \in {PayloadStarts(blobs, binary_starting_offset)} :
                \A i \in 1..Len(blobs), j \in 1..Len(blobs) :
                    (i < j /\ Mismatch(blobs[i])) => placed[j][1] # starts[j]

\* C12 amended: under the same condition dump raises no error, every payload
\* lies in the file where the emitted bytes before it put it, and the offset
\* recorded for a blob exceeds that position by the sum, over the blobs
\* before it, of declared length minus emitted bytes; the recorded offset
\* is wrong exactly for the blobs where that sum is not zero.
C12_OffsetDrift ==
    MutatedDump
    => /\ dpc # "error"
       /\ dpc = "done" =>
            \A blobs \in {BlobsOf(dataset)} :
              \A starts \in {PayloadStarts(blobs, binary_starting_offset)} :
                \A j \in 1..Len(blobs) :
                    /\ starts[j] + Len(blobs[j].data) <= Len(file)
                    /\ SubSeq(file, starts[j] + 1, starts[j] + Len(blobs[j].data))
                         = blobs[j].data
                    /\ placed[j][1] = starts[j] + Drift(blobs, j)

\* C12's case: a completed dump whose first blob declared 3 bytes and emitted
\* 2, and whose last blob, with no other mismatch before it, starts one byte
\* before the offset recorded for it.
C12_Witness ==
    /\ MutatedDump
    /\ dpc = "done"
    /\ \E blobs \in {BlobsOf(dataset)} :
         /\ Len(blobs) = 3
         /\ blobs[1].length = 3 /\ Len(blobs[1].data) = 2
         /\ ~Mismatch(blobs[2])
         /\ placed[3][1] = PayloadStarts(blobs, binary_starting_offset)[3] + 1
         /\ SubSeq(file, placed[3][1], placed[3][1] + 1) = blobs[3].data

----------------------------------------------------------------------------
\* The reads issued so far for the blob being extracted start at 0, each
\* begins where the one before ended, and each is 1..chunk_size bytes long
\* and ends within the blob.
ReadsChain ==
    \A k \in 1..Len(ex.reads) :
        /\ ex.reads[k][2] = (IF k = 1 THEN 0
                             ELSE ex.reads[k - 1][2] + ex.reads[k - 1][1])
        /\ 1 <= ex.reads[k][1]
        /\ ex.reads[k][1] <= ex.chunk_size
        /\ ex.reads[k][2] + ex.reads[k][1] <= ex.plan[ex.k].val.size

\* The state part of C13.
ChunksCover ==
    /\ ex.err # "EOFError"
    /\ ex.pc \in {"loop", "closed"} =>
         /\ ReadsChain
         /\ ex.i = (IF ex.reads = <<>> THEN 0
                    ELSE ex.reads[Len(ex.reads)][2] + ex.reads[Len(ex.reads)][1])
         /\ BlobInFile(ex.plan[ex.k].val) =>
              ex.out = SubSeq(file, ex.plan[ex.k].val.location + 1,
                              ex.plan[ex.k].val.location + ex.i)
    /\ ex.pc = "closed" => ex.i = ex.plan[ex.k].val.size

\* C13 (chunked extraction): for every blob size S and chunk_size >= 1 the
\* loop of _extract_path ends, and its reads are read(n_k, i_k) with i_0 = 0,
\* i_(k+1) = i_k + n_k, 1 <= n_k <= chunk_size and i_k + n_k <= S: no read
\* raises EOFError, and when the file is closed the ranges have covered
\* [0, S) once, S bytes in all.
C13_ChunkedExtraction ==
    /\ []ChunksCover
    /\ (ex.pc = "loop") ~> (ex.pc = "closed")

\* C13's case: a blob of 10 bytes extracted in chunks of 4 has been read as
\* 4, 4 and 2 bytes and its file closed with the blob's 10 bytes.
C13_Witness ==
    /\ ex.pc = "closed"
    /\ ex.chunk_size = 4
    /\ ex.plan[ex.k].val.size = 10
    /\ ex.reads = <<<<4, 0>>, <<4, 4>>, <<2, 8>>>>
    /\ ex.out = Ramp(48, 10)

----------------------------------------------------------------------------
\* The types the encoder has a case for.
EncodedTypes ==
    {"none", "blob", "dict", "str", "int", "float", "bytes", "bytearray", "bool"}

\* Some key of the tree, at any depth, is no str or is longer than 65535.
RECURSIVE HasInvalidKey(_)
HasInvalidKey(value) ==
    /\ value.kind = "dict"
    /\ \E i \in 1..Len(value.items) :
         \/ value.items[i].key.kind # "str"
         \/ Len(Chars(value.items[i].key)) > 65535
         \/ HasInvalidKey(value.items[i].value)

\* Some value of the tree, at any depth, is of a type outside the value model.
RECURSIVE HasUnsupportedValue(_)
HasUnsupportedValue(value) ==
    /\ value.kind = "dict"
    /\ \E i \in 1..Len(value.items) :
         \/ \A cls \in EncodedTypes : ~IsInstance(value.items[i].value, cls)
         \/ HasUnsupportedValue(value.items[i].value)

\* C14 (validation precedes writing): when the root is not a mapping, or a
\* key anywhere in the tree is not a string or is longer than 65535, or a
\* value anywhere in the tree is outside the value model, dump fails before
\* its first write: the error (TypeError or SizeError) is raised by the type
\* checks or the size pass, the binary section's offset is never computed and
\* the output has received zero bytes, not even the header.
C14_ValidationFirst ==
    (/\ dpc \notin {"none", "start"}
     /\ \/ dataset.kind # "dict"
        \/ HasInvalidKey(dataset)
        \/ HasUnsupportedValue(dataset))
    => /\ dpc = "error"
       /\ derr \in {"TypeError", "SizeError"}
       /\ binary_starting_offset = 0
       /\ file = <<>>

\* C14's case: a dump into a buffered stream has failed on a tree whose first
\* entry is encodable and whose second holds, one level down, a key of 65536
\* characters; nothing was written.
C14_Witness ==
    /\ dpc = "error"
    /\ derr = "SizeError"
    /\ buffered
    /\ dataset.kind = "dict"
    /\ Len(dataset.items) = 2
    /\ dataset.items[1].value = PyNone
    /\ HasInvalidKey(dataset.items[2].value)
    /\ file = <<>>

====
